---- MODULE Spec2Model ----
(***************************************************************************)
(* Model of the content extractor Tidy.                                    *)
(*                                                                         *)
(* Two extraction entry points exist in the repository:                    *)
(*   - the scoring pipeline, src/src/utils/tidy.ts (Tidy.parse):           *)
(*       getBlockElements -> calculateMetrics -> findContentElements ->    *)
(*       extractContent (cloneNode + cleanElement);                        *)
(*   - the selector pipeline, src/unnamed/part_000 (Tidy.parse):           *)
(*       findMainContent -> cleanup (in place) -> outerHTML.               *)
(*                                                                         *)
(* A document is a function from node ids to element records.  Node 0 is   *)
(* doc.body; every other element has a parent with a smaller id and the    *)
(* children of an element are ordered by id, so document order is the      *)
(* pre-order of the tree and differs from the order of the ids.            *)
(*                                                                         *)
(* Numbers: metrics are integers in tenths, weights are integers in        *)
(* tenths, so a score is the integer calculateContentScore(m) over the     *)
(* fixed denominator ScoreDen; comparisons are cross-multiplied and exact. *)
(***************************************************************************)
EXTENDS Integers, Sequences, FiniteSets, TLC

VARIABLES
    doc,              \* the live document handed to parse (node -> element)
    doc0,             \* the document as it was when parse was called
    pc,               \* position inside parse
    blockElements,    \* tidy.ts parse: result of getBlockElements
    elementMetrics,   \* tidy.ts parse: element -> metrics record
    scoredElements,   \* findContentElements: candidates sorted by score
    idx,              \* findContentElements: loop position in scoredElements
    contentElements,  \* findContentElements: accepted elements
    lastScore,        \* findContentElements: score of the last accepted one
    mainContent,      \* part_000 parse: the located region (or NoElement)
    provider,         \* what the node provider resolves for detached copies
    content,          \* the sanitized fragments that are serialized
    content2,         \* the same fragments after a second Sanitizer run
    excerpt           \* tidy.ts parse: the excerpt of the result

vars == << doc, doc0, pc, blockElements, elementMetrics, scoredElements, idx,
           contentElements, lastScore, mainContent, provider, content,
           content2, excerpt >>

(***************************************************************************)
(* Bounds                                                                  *)
(***************************************************************************)
MaxNodes == 3       \* number of elements below doc.body

(***************************************************************************)
(* The document tree                                                       *)
(***************************************************************************)
Body == 0
NoElement == -1
NoParent == -1

Range(s) == { s[i] : i \in DOMAIN s }

RECURSIVE SetToSortedSeq(_)
SetToSortedSeq(S) ==
    IF S = {} THEN << >>
    ELSE LET m == CHOOSE x \in S : \A y \in S : x <= y
         IN  << m >> \o SetToSortedSeq(S \ {m})

\* el.children, in order
Children(t, n) == SetToSortedSeq({ c \in DOMAIN t : t[c].parent = n })

\* a.contains(b): b is a or a descendant of a (Node.contains is inclusive)
RECURSIVE Contains(_, _, _)
Contains(t, a, b) ==
    \/ a = b
    \/ /\ b \in DOMAIN t
       /\ t[b].parent \in DOMAIN t
       /\ Contains(t, a, t[b].parent)

Descendants(t, n) == { c \in DOMAIN t : c # n /\ Contains(t, n, c) }

\* the elements of the subtree of n in document (pre-)order, n first
RECURSIVE PreOrder(_, _)
RECURSIVE PreOrderAll(_, _)
PreOrder(t, n) == << n >> \o PreOrderAll(t, Children(t, n))
PreOrderAll(t, cs) ==
    IF cs = << >> THEN << >>
    ELSE PreOrder(t, Head(cs)) \o PreOrderAll(t, Tail(cs))

RootOf(t) == CHOOSE r \in DOMAIN t : t[r].parent \notin DOMAIN t

\* position of an element in the document order of its tree
Position(t, n) ==
    LET order == PreOrder(t, RootOf(t))
    IN  CHOOSE i \in DOMAIN order : order[i] = n

\* a.compareDocumentPosition(b) & Node.DOCUMENT_POSITION_FOLLOWING
Following(t, a, b) == Position(t, a) < Position(t, b)

\* el.remove(): the element leaves the tree with its whole subtree
Remove(t, n) == [ c \in DOMAIN t \ ({n} \cup Descendants(t, n)) |-> t[c] ]

RECURSIVE RemoveAll(_, _)
RemoveAll(t, ns) ==
    IF ns = << >> THEN t
    ELSE RemoveAll(IF Head(ns) \in DOMAIN t THEN Remove(t, Head(ns)) ELSE t,
                   Tail(ns))

\* el.cloneNode(true): a detached deep copy of the subtree of n
CloneNode(t, n) ==
    [ c \in {n} \cup Descendants(t, n) |->
        IF c = n THEN [ t[c] EXCEPT !.parent = NoParent ] ELSE t[c] ]

(***************************************************************************)
(* Elements                                                                *)
(***************************************************************************)
HasAttribute(el, name) == \E a \in el.attrs : a[1] = name
GetAttribute(el, name) ==
    IF HasAttribute(el, name)
    THEN (CHOOSE a \in el.attrs : a[1] = name)[2]
    ELSE ""
ClassName(el) == GetAttribute(el, "class")
Id(el) == GetAttribute(el, "id")

DefaultStyle ==
    [ display |-> "block", visibility |-> "visible", opacity |-> "1",
      width |-> "100px", height |-> "20px", position |-> "static",
      offscreen |-> FALSE, maxHeight |-> "none", overflow |-> "visible",
      zIndex |-> "auto" ]

\* an element: its tag, attributes, resolved style, own text, whether it
\* holds a comment node, and the facts calculateMetrics reads off it
Element(tag, attrs, style, text, metrics) ==
    [ tag |-> tag, attrs |-> attrs, style |-> style, text |-> text,
      comment |-> FALSE, metrics |-> metrics, parent |-> NoParent ]

BLOCK_ELEMENTS ==
    { "ADDRESS", "ARTICLE", "ASIDE", "BLOCKQUOTE", "DETAILS", "DIALOG", "DD",
      "DIV", "DL", "DT", "FIELDSET", "FIGCAPTION", "FIGURE", "FOOTER", "FORM",
      "H1", "H2", "H3", "H4", "H5", "H6", "HEADER", "HGROUP", "HR", "LI",
      "MAIN", "NAV", "OL", "P", "PRE", "SECTION", "TABLE", "UL" }

\* window.getComputedStyle(element).  For an element of the live document
\* the resolved style is a layout fact of the element; for an element of a
\* detached copy the provider may resolve no style at all (styled = FALSE),
\* and then every property reads as the empty string.
EmptyStyle ==
    [ display |-> "", visibility |-> "", opacity |-> "", width |-> "",
      height |-> "", position |-> "", offscreen |-> FALSE, maxHeight |-> "",
      overflow |-> "", zIndex |-> "" ]

getComputedStyle(el, styled) == IF styled THEN el.style ELSE EmptyStyle

isHidden(el, style) ==
    \/ style.display = "none"
    \/ style.visibility = "hidden"
    \/ style.opacity = "0"
    \/ (style.width = "0px" /\ style.height = "0px")
    \/ (style.position = "absolute" /\ style.offscreen)
    \/ style.maxHeight = "0px"
    \/ (style.overflow = "hidden"
          /\ (style.height = "0px" \/ style.width = "0px"))
    \/ HasAttribute(el, "hidden")
    \/ GetAttribute(el, "aria-hidden") = "true"

(***************************************************************************)
(* Block Enumerator (tidy.ts getBlockElements)                             *)
(***************************************************************************)
\* the TreeWalker filter
acceptNode(el) ==
    IF el.tag \notin BLOCK_ELEMENTS THEN "FILTER_SKIP"
    ELSE IF isHidden(el, getComputedStyle(el, TRUE)) THEN "FILTER_REJECT"
    ELSE "FILTER_ACCEPT"

\* walker.nextNode() until null: skipped nodes are descended into, rejected
\* nodes are not; the root itself is never offered to the filter
RECURSIVE Walk(_, _)
RECURSIVE WalkAll(_, _)
Walk(t, n) ==
    LET f == acceptNode(t[n])
    IN  IF f = "FILTER_REJECT" THEN << >>
        ELSE IF f = "FILTER_SKIP" THEN WalkAll(t, Children(t, n))
        ELSE << n >> \o WalkAll(t, Children(t, n))
WalkAll(t, cs) ==
    IF cs = << >> THEN << >>
    ELSE Walk(t, Head(cs)) \o WalkAll(t, Tail(cs))

getBlockElements(t, root) == WalkAll(t, Children(t, root))

(***************************************************************************)
(* Scoring Engine (tidy.ts calculateContentScore)                          *)
(***************************************************************************)
\* weights in tenths
SCORING_WEIGHTS ==
    [ TEXT_DENSITY |-> 15, VISUAL_DENSITY |-> 10, LINK_DENSITY |-> 10,
      NATURAL_LANGUAGE |-> 20, SIBLING_SIMILARITY |-> 5,
      CONTENT_MOMENTUM |-> 10 ]

TOTAL_WEIGHTS ==
    SCORING_WEIGHTS.TEXT_DENSITY + SCORING_WEIGHTS.VISUAL_DENSITY
      + SCORING_WEIGHTS.LINK_DENSITY + SCORING_WEIGHTS.NATURAL_LANGUAGE
      + SCORING_WEIGHTS.SIBLING_SIMILARITY + SCORING_WEIGHTS.CONTENT_MOMENTUM

\* a score is the returned integer over ScoreDen (metrics are in tenths)
ScoreDen == 10 * TOTAL_WEIGHTS

calculateContentScore(m) ==
    m.textDensity * SCORING_WEIGHTS.TEXT_DENSITY
      + m.visualDensity * SCORING_WEIGHTS.VISUAL_DENSITY
      + (10 - m.linkDensity) * SCORING_WEIGHTS.LINK_DENSITY
      + m.naturalLanguageScore * SCORING_WEIGHTS.NATURAL_LANGUAGE
      + m.siblingSimilarity * SCORING_WEIGHTS.SIBLING_SIMILARITY
      + m.contentMomentum * SCORING_WEIGHTS.CONTENT_MOMENTUM

\* MINIMUM_CONTENT_SCORE = 0.5 and SCORE_DECAY_FACTOR = 0.7 as fractions
MINIMUM_CONTENT_SCORE == << 1, 2 >>
SCORE_DECAY_FACTOR == << 7, 10 >>

\* a floor test that lets a score equal to the floor pass
AboveMinimumOrEqual(score) ==
    score * MINIMUM_CONTENT_SCORE[2] >= MINIMUM_CONTENT_SCORE[1] * ScoreDen

\* score > MINIMUM_CONTENT_SCORE
AboveMinimum(score) ==
    score * MINIMUM_CONTENT_SCORE[2] > MINIMUM_CONTENT_SCORE[1] * ScoreDen

\* a decay test that compares against half of the last score
AboveDecayHalf(score, last) == score * 2 > last

\* score > last * SCORE_DECAY_FACTOR
AboveDecay(score, last) ==
    score * SCORE_DECAY_FACTOR[2] > last * SCORE_DECAY_FACTOR[1]

(***************************************************************************)
(* Content Selector (tidy.ts findContentElements)                          *)
(***************************************************************************)
\* comparator of scoredElements.sort: (a, b) => b.score - a.score
ScoreCompare(a, b) == b.score - a.score

RECURSIVE InsertByScore(_, _)
InsertByScore(x, s) ==
    IF s = << >> THEN << x >>
    ELSE IF ScoreCompare(x, Head(s)) < 0 THEN << x >> \o s
    ELSE << Head(s) >> \o InsertByScore(x, Tail(s))

\* Array.prototype.sort is stable: equal scores keep their order
RECURSIVE SortByScore(_)
SortByScore(s) ==
    IF s = << >> THEN << >>
    ELSE InsertByScore(s[Len(s)], SortByScore(SubSeq(s, 1, Len(s) - 1)))

\* a position comparator with its two results exchanged
PositionCompareSwapped(t, a, b) == IF Following(t, a, b) THEN 1 ELSE -1

\* comparator of contentElements.sort:
\*   a.compareDocumentPosition(b) & DOCUMENT_POSITION_FOLLOWING ? -1 : 1
PositionCompare(t, a, b) == IF Following(t, a, b) THEN -1 ELSE 1

RECURSIVE InsertByPosition(_, _, _)
InsertByPosition(t, x, s) ==
    IF s = << >> THEN << x >>
    ELSE IF PositionCompare(t, x, Head(s)) < 0 THEN << x >> \o s
    ELSE << Head(s) >> \o InsertByPosition(t, x, Tail(s))

RECURSIVE SortByPosition(_, _)
SortByPosition(t, s) ==
    IF s = << >> THEN << >>
    ELSE InsertByPosition(t, s[Len(s)],
                          SortByPosition(t, SubSeq(s, 1, Len(s) - 1)))

\* a child test that only recognises the selected element itself
isChildOfSelectedSelf(t, selected, element) ==
    \E i \in DOMAIN selected : selected[i] = element

\* selectedElement.contains(element) for some selected element
isChildOfSelected(t, selected, element) ==
    \E i \in DOMAIN selected : Contains(t, selected[i], element)

\* element.contains(selectedElement) for some selected element
isParentOfSelected(t, selected, element) ==
    \E i \in DOMAIN selected : Contains(t, element, selected[i])

\* the acceptance test of the loop body
Accepts(selected, score, last) ==
    \/ Len(selected) = 0
    \/ (AboveMinimum(score) /\ AboveDecay(score, last))

(***************************************************************************)
(* Strings.  The class names and texts of the model are drawn from a small *)
(* vocabulary; WordsIn(s) is the set of pattern alternatives that occur in *)
(* s (case-insensitively), so a regular expression that is an alternation  *)
(* of words, or a [class*="w"] selector, is a membership test.             *)
(***************************************************************************)
WordsIn(s) ==
    CASE s = "post-content" -> { "post", "content" }
      [] s = "share-bar" -> { "share" }
      [] s = "Sign up to continue reading" ->
             { "sign up", "continue reading", "continue", "read" }
      [] s = "Continue with Google" -> { "continue", "google" }
      [] OTHER -> {}

\* regex.test(s) for a regex that is an alternation of the given words
Test(words, s) == words \cap WordsIn(s) # {}

\* text.length
Length(s) ==
    CASE s = "Hello." -> 6
      [] s = "Sign up to continue reading" -> 27
      [] s = "Continue with Google" -> 20
      [] s = "prose of 160 characters" -> 160
      [] s = "prose of 161 characters" -> 161
      [] s = " " -> 1
      [] s = "\n" -> 1
      [] OTHER -> 0

\* text.split(/\s+/).length for a text of the vocabulary
WordCount(s) ==
    CASE s = "Hello." -> 1
      [] s = "Sign up to continue reading" -> 5
      [] s = "Continue with Google" -> 3
      [] OTHER -> 0

\* the whitespace-separated tokens of a class attribute
ClassList(el) == IF ClassName(el) = "" THEN {} ELSE { ClassName(el) }

\* el.textContent, as the sequence of the non-empty texts of the subtree
textContent(t, n) ==
    SelectSeq([ i \in DOMAIN PreOrder(t, n) |-> t[PreOrder(t, n)[i]].text ],
              LAMBDA x : x # "")

RECURSIVE SumLength(_)
SumLength(txt) ==
    IF txt = << >> THEN 0 ELSE Length(Head(txt)) + SumLength(Tail(txt))

RECURSIVE SumWords(_)
SumWords(txt) ==
    IF txt = << >> THEN 0 ELSE WordCount(Head(txt)) + SumWords(Tail(txt))

TestText(words, txt) == \E i \in DOMAIN txt : Test(words, txt[i])

\* element.getElementsByTagName(tag)
getElementsByTagName(t, n, tag) == { d \in Descendants(t, n) : t[d].tag = tag }

\* element.querySelectorAll(selector): the descendants among the elements
\* that match the selector, in document order, as a static list
querySelectorAll(t, n, matching) ==
    SelectSeq(Tail(PreOrder(t, n)), LAMBDA d : d \in matching)

PAYWALL_INDICATORS ==
    { "sign-up", "sign up", "signup", "subscribe", "membership", "register",
      "create-account", "create account", "log-in", "log in", "login",
      "sign-in", "sign in", "signin", "already have an account",
      "continue reading", "read more", "full story", "unlock", "premium" }

AUTH_BUTTONS ==
    { "google", "facebook", "twitter", "email", "apple", "continue", "social" }

CONTENT_BOUNDARY_INDICATORS ==
    { "more", "related", "popular", "recommended", "trending", "similar",
      "also", "read", "next", "prev", "suggested" }

\* parseInt of a resolved z-index; no entry means NaN
ParseInt == ("1" :> 1) @@ ("10" :> 10)

(***************************************************************************)
(* Sanitizer of the scoring pipeline (tidy.ts cleanElement)                *)
(***************************************************************************)
\* the selector list of the first pass
UnwantedSelector(el) ==
    \/ el.tag \in { "SCRIPT", "STYLE", "LINK", "META" }
    \/ Test({ "social", "share", "comments", "related", "widget", "ad-",
              "signup", "subscribe", "follow", "toolbar" }, ClassName(el))
    \/ /\ el.tag = "IFRAME"
       /\ ~Test({ "youtube" }, GetAttribute(el, "src"))
       /\ ~Test({ "vimeo" }, GetAttribute(el, "src"))

\* printMedia: window.matchMedia('print').matches
isHiddenForPrint(el, style, printMedia) ==
    \/ Test({ "hide-for-print", "no-print", "noprint" }, ClassName(el))
    \/ (printMedia /\ (style.display = "none" \/ style.visibility = "hidden"))

isUiElement(el) ==
    LET isButton == \/ el.tag = "BUTTON"
                    \/ GetAttribute(el, "role") = "button"
                    \/ "button" \in ClassList(el)
                    \/ Test({ "btn-" }, ClassName(el))
        isIcon == \/ Test({ "icon", "emoji" }, ClassName(el))
                  \/ el.tag = "SVG"
        isToolbar == \/ Test({ "toolbar", "controls" }, ClassName(el))
                     \/ GetAttribute(el, "role") = "toolbar"
        isWidget == Test({ "widget", "follow", "share" }, ClassName(el))
    IN  isButton \/ isIcon \/ isToolbar \/ isWidget

isPaywallElement(t, n, style) ==
    LET text == textContent(t, n)
        authElements == getElementsByTagName(t, n, "A")
                          \cup getElementsByTagName(t, n, "BUTTON")
        hasAuthButtons ==
            \E a \in authElements :
                \/ TestText(AUTH_BUTTONS, textContent(t, a))
                \/ Test(AUTH_BUTTONS, ClassName(t[a]))
    IN  \/ (TestText(PAYWALL_INDICATORS, text) /\ hasAuthButtons)
        \/ /\ style.position \in { "fixed", "absolute" }
           /\ style.zIndex # "auto"
           /\ style.zIndex \in DOMAIN ParseInt
           /\ ParseInt[style.zIndex] > 1

\* the summed text lengths of the given elements
RECURSIVE SumTextLength(_, _)
SumTextLength(t, ns) ==
    IF ns = << >> THEN 0
    ELSE SumLength(textContent(t, Head(ns))) + SumTextLength(t, Tail(ns))

\* getLinkDensity(element) > num / den, where the density is
\* linkText.length / text.length, and 0 for an empty text
LinkDensityAbove(t, n, num, den) ==
    LET text == SumLength(textContent(t, n))
        links == SetToSortedSeq(getElementsByTagName(t, n, "A"))
        linkText == SumTextLength(t, links)
    IN  text > 0 /\ linkText * den > num * text

Abs(x) == IF x < 0 THEN 0 - x ELSE x

isContentBoundary(t, n) ==
    LET links == getElementsByTagName(t, n, "A")
        lists == getElementsByTagName(t, n, "UL")
        children == Children(t, n)
        firstChild == children[1]
        textLength(c) == SumLength(textContent(t, c))
        similarChildren ==
            { i \in DOMAIN children :
                /\ t[children[i]].tag = t[firstChild].tag
                /\ Abs(textLength(children[i]) - textLength(firstChild)) < 100 }
    IN  \/ Test(CONTENT_BOUNDARY_INDICATORS, ClassName(t[n]))
        \/ Test(CONTENT_BOUNDARY_INDICATORS, Id(t[n]))
        \/ /\ Cardinality(links) > 3
           /\ Cardinality(lists) > 0
           /\ LinkDensityAbove(t, n, 4, 10)
        \/ /\ Len(children) > 2
           /\ Cardinality(similarChildren) * 10 > Len(children) * 7

\* sections.forEach: each section of the static list is tested against the
\* tree as the earlier removals left it; a section that left the tree with a
\* removed ancestor no longer matters
RECURSIVE RemoveSections(_, _, _)
RemoveSections(t, sections, styled) ==
    IF sections = << >> THEN t
    ELSE LET n == Head(sections)
             gone == n \notin DOMAIN t
             hit == /\ ~gone
                    /\ \/ isPaywallElement(t, n, getComputedStyle(t[n], styled))
                       \/ isContentBoundary(t, n)
         IN  RemoveSections(IF hit THEN Remove(t, n) ELSE t,
                            Tail(sections), styled)

\* p:empty, div:empty, span:empty (comments do not count for :empty)
IsEmpty(t, n) ==
    /\ t[n].tag \in { "P", "DIV", "SPAN" }
    /\ t[n].text = ""
    /\ Children(t, n) = << >>

\* cleanElement(element) on the tree t whose root is the element
cleanElement(t, styled, printMedia) ==
    LET root == RootOf(t)
        t1 == RemoveAll(t, querySelectorAll(t, root,
                  { d \in DOMAIN t : UnwantedSelector(t[d]) }))
        t2 == RemoveAll(t1, querySelectorAll(t1, root,
                  { d \in DOMAIN t1 :
                      \/ isHidden(t1[d], getComputedStyle(t1[d], styled))
                      \/ isHiddenForPrint(t1[d],
                                          getComputedStyle(t1[d], styled),
                                          printMedia)
                      \/ isUiElement(t1[d]) }))
        t3 == RemoveSections(t2,
                  querySelectorAll(t2, root,
                      { d \in DOMAIN t2 : t2[d].tag \in { "SECTION", "DIV" } }),
                  styled)
        t4 == RemoveAll(t3, querySelectorAll(t3, root,
                  { d \in DOMAIN t3 : IsEmpty(t3, d) }))
    IN  t4

\* extractContent(elements): clone each element, clean each clone; the
\* result stands for the outerHTML of the clones, joined in order
extractContent(t, elements, styled, printMedia) ==
    [ i \in DOMAIN elements |->
        cleanElement(CloneNode(t, elements[i]), styled, printMedia) ]

(***************************************************************************)
(* Excerpt (tidy.ts generateExcerpt)                                       *)
(*                                                                         *)
(* A text is the sequence of the texts of a subtree; an excerpt records    *)
(* the text it was cut from, how many of its characters were kept and      *)
(* whether "..." was appended.                                             *)
(***************************************************************************)
Undefined == [ defined |-> FALSE, of |-> << >>, kept |-> 0, ellipsis |-> FALSE ]

IsWhitespace(s) == s \in { " ", "\n" }

\* String.prototype.trim: the texts of the vocabulary carry no whitespace
\* at their own ends, so trimming drops leading and trailing blank texts
RECURSIVE TrimStart(_)
TrimStart(txt) ==
    IF txt = << >> \/ ~IsWhitespace(Head(txt)) THEN txt
    ELSE TrimStart(Tail(txt))

RECURSIVE TrimEnd(_)
TrimEnd(txt) ==
    IF txt = << >> \/ ~IsWhitespace(txt[Len(txt)]) THEN txt
    ELSE TrimEnd(SubSeq(txt, 1, Len(txt) - 1))

Trim(txt) == TrimEnd(TrimStart(txt))

\* text.length > 160 ? text.slice(0, 157) + '...' : text
Truncate(text) ==
    IF SumLength(text) > 160
    THEN [ defined |-> TRUE, of |-> text, kept |-> 157, ellipsis |-> TRUE ]
    ELSE [ defined |-> TRUE, of |-> text, kept |-> SumLength(text),
           ellipsis |-> FALSE ]

ExcerptLength(e) == e.kept + (IF e.ellipsis THEN 3 ELSE 0)

\* div.querySelector('p') on the parsed content: the first p of the
\* fragments, in order, as << fragment, element >>, or << >>
RECURSIVE FirstParagraph(_, _)
FirstParagraph(fragments, i) ==
    IF i > Len(fragments) THEN << >>
    ELSE LET t == fragments[i]
             ps == SelectSeq(PreOrder(t, RootOf(t)),
                             LAMBDA n : t[n].tag = "P")
         IN  IF ps # << >> THEN << i, Head(ps) >>
             ELSE FirstParagraph(fragments, i + 1)

\* div.textContent: the fragments were joined with '\n' by extractContent
RECURSIVE JoinedText(_, _)
JoinedText(fragments, i) ==
    IF i > Len(fragments) THEN << >>
    ELSE textContent(fragments[i], RootOf(fragments[i]))
           \o (IF i < Len(fragments) THEN << "\n" >> ELSE << >>)
           \o JoinedText(fragments, i + 1)

\* generateExcerpt(content).  The content is parsed back into elements; the
\* documents of the excerpt runs are ones an HTML parser yields (no block
\* element inside a p), for which parsing restores the serialized fragments
generateExcerpt(fragments) ==
    LET firstP == FirstParagraph(fragments, 1)
        pText == IF firstP = << >> THEN << >>
                 ELSE textContent(fragments[firstP[1]], firstP[2])
        text == Trim(JoinedText(fragments, 1))
    IN  IF firstP # << >> /\ SumLength(pText) > 0
        THEN Truncate(Trim(pText))
        ELSE IF SumLength(text) > 160 THEN Truncate(text)
        ELSE IF SumLength(text) > 0 THEN Truncate(text)
        ELSE Undefined

(***************************************************************************)
(* Main-Content Locator of the selector pipeline (part_000)                *)
(***************************************************************************)
\* the selector list of findMainContent, in the order it is written
MainContentSelectors ==
    << "main[role=main]", "main", "[role=article]", "article",
       "[itemprop=articleBody]", ".post-content", ".article-content",
       "#article-content", ".content-article" >>

\* element.matches(selector) for one selector of the list
MatchesSelector(el, sel) ==
    CASE sel = "main[role=main]" ->
             el.tag = "MAIN" /\ GetAttribute(el, "role") = "main"
      [] sel = "main" -> el.tag = "MAIN"
      [] sel = "[role=article]" -> GetAttribute(el, "role") = "article"
      [] sel = "article" -> el.tag = "ARTICLE"
      [] sel = "[itemprop=articleBody]" ->
             GetAttribute(el, "itemprop") = "articleBody"
      [] sel = ".post-content" -> "post-content" \in ClassList(el)
      [] sel = ".article-content" -> "article-content" \in ClassList(el)
      [] sel = "#article-content" -> Id(el) = "article-content"
      [] sel = ".content-article" -> "content-article" \in ClassList(el)
      [] OTHER -> FALSE

MatchesAnySelector(el) ==
    \E i \in DOMAIN MainContentSelectors :
        MatchesSelector(el, MainContentSelectors[i])

\* doc.querySelector(selectors.join(',')): the first element, in document
\* order, that matches any selector of the list
querySelector(t) ==
    LET hits == SelectSeq(PreOrder(t, RootOf(t)),
                          LAMBDA n : MatchesAnySelector(t[n]))
    IN  IF hits = << >> THEN NoElement ELSE Head(hits)

POSITIVE_PATTERNS ==
    { "article", "content", "main", "post", "body", "text", "blog", "story" }

NEGATIVE_PATTERNS ==
    { "comment", "meta", "footer", "footnote", "foot", "nav", "sidebar",
      "banner", "ad", "popup", "menu" }

Min(a, b) == IF a < b THEN a ELSE b

\* text.split(/\s+/).length: the texts of a subtree are joined without a
\* separator, and the empty string splits into one empty word
SplitLength(txt) ==
    IF txt = << >> THEN 1 ELSE SumWords(txt) - (Len(txt) - 1)

scoreElement(t, n) ==
    LET el == t[n]
        text == textContent(t, n)
        positive == IF \/ Test(POSITIVE_PATTERNS, ClassName(el))
                       \/ Test(POSITIVE_PATTERNS, Id(el))
                    THEN 25 ELSE 0
        negative == IF \/ Test(NEGATIVE_PATTERNS, ClassName(el))
                       \/ Test(NEGATIVE_PATTERNS, Id(el))
                    THEN 25 ELSE 0
        words == Min(SplitLength(text) \div 100, 3)
        linkPenalty == IF LinkDensityAbove(t, n, 1, 2) THEN 10 ELSE 0
        paragraphs == Cardinality(getElementsByTagName(t, n, "P"))
        images == Cardinality(getElementsByTagName(t, n, "IMG"))
    IN  positive - negative + words - linkPenalty + paragraphs
          + Min(images * 3, 9)

\* the tags scoreElements iterates over, in its order
ScoredTags == << "DIV", "SECTION", "ARTICLE", "MAIN" >>

RECURSIVE CandidatesOf(_, _)
CandidatesOf(t, tags) ==
    IF tags = << >> THEN << >>
    ELSE LET els == SelectSeq(PreOrder(t, RootOf(t)),
                        LAMBDA n : t[n].tag = Head(tags)
                                     /\ scoreElement(t, n) > 0)
         IN  [ i \in DOMAIN els |->
                 [ element |-> els[i], score |-> scoreElement(t, els[i]) ] ]
               \o CandidatesOf(t, Tail(tags))

\* scoreElements(doc): the candidates scoring above 0, best first
scoreElements(t) == SortByScore(CandidatesOf(t, ScoredTags))

\* findMainContent(doc)
findMainContent(t) ==
    IF querySelector(t) # NoElement THEN querySelector(t)
    ELSE IF Len(scoreElements(t)) > 0 THEN scoreElements(t)[1].element
    ELSE NoElement

(***************************************************************************)
(* Sanitizer of the selector pipeline (part_000 cleanup, cleanAttributes)  *)
(***************************************************************************)
keepAttributes ==
    { "title", "lang", "src", "srcset", "alt", "href", "content", "property",
      "name", "datetime", "type", "value", "colspan", "rowspan", "rel",
      "cite" }

\* the unwantedSelectors of cleanup
CleanupSelector(el) ==
    \/ Test({ "comments", "share", "social", "follow", "related", "author",
              "byline", "profile", "avatar", "clap", "vote", "bookmark",
              "response", "reactions", "tooltip", "popup", "modal",
              "advertisement", "promotion", "time", "timestamp", "date",
              "read-time", "views", "stats" }, ClassName(el))
    \/ Test({ "comments" }, Id(el))
    \/ "ad" \in ClassList(el)
    \/ Id(el) = "ad"
    \/ GetAttribute(el, "role") \in { "complementary", "banner", "navigation" }
    \/ el.tag = "SPEECHIFY-IGNORE"
    \/ GetAttribute(el, "rel") = "author"

\* the inner cleanElement of cleanAttributes, applied to el and, through the
\* recursion over el.children, to every element below it
cleanAttributes(t, n) ==
    [ c \in DOMAIN t |->
        IF Contains(t, n, c)
        THEN [ t[c] EXCEPT !.attrs = { a \in @ : a[1] \in keepAttributes } ]
        ELSE t[c] ]

\* removeComments(element): every comment node of the subtree
removeComments(t, n) ==
    [ c \in DOMAIN t |->
        IF Contains(t, n, c) THEN [ t[c] EXCEPT !.comment = FALSE ] ELSE t[c] ]

\* cleanup(element), in place on the tree t that holds the element n
cleanup(t, n) ==
    LET t1 == removeComments(t, n)
        t2 == RemoveAll(t1, querySelectorAll(t1, n,
                  { d \in DOMAIN t1 : CleanupSelector(t1[d]) }))
        t3 == RemoveAll(t2, querySelectorAll(t2, n,
                  { d \in DOMAIN t2 :
                      /\ t2[d].tag = "IFRAME"
                      /\ ~Test({ "youtube.com" },
                               GetAttribute(t2[d], "src"))
                      /\ ~Test({ "vimeo.com" },
                               GetAttribute(t2[d], "src")) }))
    IN  cleanAttributes(t3, n)

\* mainContent.outerHTML: the subtree of the region, as it is in the document
outerHTML(t, n) == CloneNode(t, n)

(***************************************************************************)
(* Inputs: the documents parse is called with                              *)
(***************************************************************************)
\* metrics in tenths; their scores are 700, 505, 490, 355 and 350 over 700,
\* so that 490 is exactly 0.7 of 700 and 350 is exactly the floor 0.5
Metrics(td, vd, ld, nl, ss, cm) ==
    [ textDensity |-> td, visualDensity |-> vd, linkDensity |-> ld,
      naturalLanguageScore |-> nl, siblingSimilarity |-> ss,
      contentMomentum |-> cm ]

MetricProfiles ==
    { Metrics(10, 10, 0, 10, 10, 10), Metrics(10, 0, 0, 10, 1, 5),
      Metrics(10, 0, 0, 10, 0, 4), Metrics(10, 0, 0, 5, 1, 0),
      Metrics(10, 0, 0, 5, 0, 0) }

Prose == Metrics(10, 10, 0, 10, 10, 10)

DisplayNone == [ DefaultStyle EXCEPT !.display = "none" ]

\* the elements of the selection runs: visible blocks of every score, an
\* inline element and a block that is display:none
SelectionElements ==
    { Element("DIV", {}, DefaultStyle, "Hello.", m) : m \in MetricProfiles }
      \cup { Element("SPAN", {}, DefaultStyle, "Hello.", Prose),
             Element("DIV", { << "style", "display:none" >> }, DisplayNone,
                     "Hello.", Prose) }

\* the elements of the sanitizer runs
SanitizerElements ==
    { [ Element("DIV", {}, DefaultStyle, "", Prose) EXCEPT !.comment = TRUE ],
      Element("P", {}, DefaultStyle, "", Prose),
      Element("P", { << "style", "display:none" >> }, DisplayNone, "Hello.",
              Prose),
      Element("DIV", { << "class", "post-content" >> }, DefaultStyle, "Hello.",
              Prose),
      Element("DIV", {}, DefaultStyle, "Sign up to continue reading", Prose),
      Element("BUTTON", {}, DefaultStyle, "Continue with Google", Prose),
      Element("A", { << "href", "/login" >> }, DefaultStyle,
              "Continue with Google", Prose),
      Element("SPAN", {}, DefaultStyle, "Hello.", Prose),
      Element("MAIN", {}, DefaultStyle, "Hello.", Prose),
      Element("DIV", { << "class", "share-bar" >> }, DefaultStyle, "Hello.",
              Prose) }

\* the elements of the excerpt runs: paragraphs and blocks whose texts are
\* empty, blank, exactly 160 and 161 characters long
ExcerptElements ==
    { Element("DIV", {}, DefaultStyle, "", Prose),
      Element("DIV", {}, DefaultStyle, "prose of 161 characters", Prose),
      Element("P", {}, DefaultStyle, "", Prose),
      Element("P", {}, DefaultStyle, " ", Prose),
      Element("P", {}, DefaultStyle, "prose of 160 characters", Prose),
      Element("P", {}, DefaultStyle, "prose of 161 characters", Prose),
      Element("SPAN", {}, DefaultStyle, "Hello.", Prose) }

BodyElement == Element("BODY", {}, DefaultStyle, "", Prose)

\* every element but the body has a parent with a smaller id
Shapes == { p \in [ 1 .. MaxNodes -> 0 .. MaxNodes - 1 ] :
              \A n \in 1 .. MaxNodes : p[n] < n }

Documents(elements) ==
    { [ n \in 0 .. MaxNodes |->
          IF n = Body THEN BodyElement
          ELSE [ k[n] EXCEPT !.parent = p[n] ] ] :
      p \in Shapes, k \in [ 1 .. MaxNodes -> elements ] }

InitWith(elements) ==
    /\ doc \in Documents(elements)
    /\ doc0 = doc
    /\ pc = "parse"
    /\ blockElements = << >>
    /\ elementMetrics = << >>
    /\ scoredElements = << >>
    /\ idx = 1
    /\ contentElements = << >>
    /\ lastScore = 0
    /\ mainContent = NoElement
    /\ provider = [ styled |-> TRUE, printMedia |-> FALSE ]
    /\ content = << >>
    /\ content2 = << >>
    /\ excerpt = Undefined

Init == InitWith(SelectionElements)

InitSanitizer == InitWith(SanitizerElements)

\* the elements of the enumerator runs: those of the selection runs and an
\* inline element that is display:none
EnumeratorElements ==
    SelectionElements
      \cup { Element("SPAN", { << "style", "display:none" >> }, DisplayNone,
                     "Hello.", Prose) }

InitEnumerator == InitWith(EnumeratorElements)

\* a document as an HTML parser yields it: no block element inside a p
ParserShaped(t) ==
    \A n, a \in DOMAIN t :
        (a # n /\ Contains(t, a, n) /\ t[a].tag = "P")
            => t[n].tag \notin BLOCK_ELEMENTS

InitExcerpt == InitWith(ExcerptElements) /\ ParserShaped(doc)

(***************************************************************************)
(* The scoring pipeline: Tidy.parse of tidy.ts                             *)
(***************************************************************************)
\* const blockElements = this.getBlockElements(doc.body)
GetBlockElements ==
    /\ pc = "parse"
    /\ blockElements' = getBlockElements(doc, Body)
    /\ pc' = "metrics"
    /\ UNCHANGED << doc, doc0, elementMetrics, scoredElements, idx,
                    contentElements, lastScore, mainContent, provider,
                    content, content2, excerpt >>

\* blockElements.map(element => this.calculateMetrics(element))
calculateMetrics(t, n) == [ element |-> n ] @@ t[n].metrics

CalculateMetrics ==
    /\ pc = "metrics"
    /\ elementMetrics' =
           [ i \in DOMAIN blockElements |->
               calculateMetrics(doc, blockElements[i]) ]
    /\ pc' = "find"
    /\ UNCHANGED << doc, doc0, blockElements, scoredElements, idx,
                    contentElements, lastScore, mainContent, provider,
                    content, content2, excerpt >>

\* findContentElements, up to the loop: score, sort by score descending
ScoreElements ==
    /\ pc = "find"
    /\ scoredElements' =
           SortByScore([ i \in DOMAIN elementMetrics |->
               [ element |-> elementMetrics[i].element,
                 score |-> calculateContentScore(elementMetrics[i]) ] ])
    /\ contentElements' = << >>
    /\ lastScore' = 0
    /\ idx' = 1
    /\ pc' = "loop"
    /\ UNCHANGED << doc, doc0, blockElements, elementMetrics, mainContent,
                    provider,
                    content, content2, excerpt >>

\* one iteration of the loop over scoredElements
Visit ==
    /\ pc = "loop"
    /\ idx <= Len(scoredElements)
    /\ LET element == scoredElements[idx].element
           score == scoredElements[idx].score
       IN  IF /\ ~isChildOfSelected(doc, contentElements, element)
              /\ ~isParentOfSelected(doc, contentElements, element)
              /\ Accepts(contentElements, score, lastScore)
           THEN /\ contentElements' = Append(contentElements, element)
                /\ lastScore' = score
           ELSE UNCHANGED << contentElements, lastScore >>
    /\ idx' = idx + 1
    /\ UNCHANGED << doc, doc0, pc, blockElements, elementMetrics,
                    scoredElements, mainContent, provider, content, content2,
                    excerpt >>

\* return contentElements.sort(by document position)
SortContentElements ==
    /\ pc = "loop"
    /\ idx > Len(scoredElements)
    /\ contentElements' = SortByPosition(doc, contentElements)
    /\ pc' = "extract"
    /\ UNCHANGED << doc, doc0, blockElements, elementMetrics, scoredElements,
                    idx, lastScore, mainContent, provider, content, content2,
                    excerpt >>

\* const content = this.extractContent(contentElements), and the excerpt
\* of the returned result: this.generateExcerpt(content); whether the style
\* of a detached copy resolves, and whether the print medium matches, is the
\* provider's choice
ExtractContent ==
    /\ pc = "extract"
    /\ \E styled \in BOOLEAN, printMedia \in BOOLEAN :
           /\ provider' = [ styled |-> styled, printMedia |-> printMedia ]
           /\ content' = extractContent(doc, contentElements, styled,
                                        printMedia)
    /\ excerpt' = generateExcerpt(content')
    /\ pc' = "done"
    /\ UNCHANGED << doc, doc0, blockElements, elementMetrics, scoredElements,
                    idx, contentElements, lastScore, mainContent, content2 >>

\* the Sanitizer run a second time, on the already sanitized fragments
SanitizeAgain ==
    /\ pc = "done"
    /\ content2' = [ i \in DOMAIN content |->
                       cleanElement(content[i], provider.styled,
                                    provider.printMedia) ]
    /\ pc' = "again"
    /\ UNCHANGED << doc, doc0, blockElements, elementMetrics, scoredElements,
                    idx, contentElements, lastScore, mainContent, provider,
                    content, excerpt >>

Next ==
    \/ GetBlockElements
    \/ CalculateMetrics
    \/ ScoreElements
    \/ Visit
    \/ SortContentElements
    \/ ExtractContent
    \/ SanitizeAgain

Spec == Init /\ [][Next]_vars

SpecSanitizer == InitSanitizer /\ [][Next]_vars

SpecExcerpt == InitExcerpt /\ [][Next]_vars

SpecEnumerator == InitEnumerator /\ [][Next]_vars

(***************************************************************************)
(* The selector pipeline: Tidy.parse of part_000                           *)
(***************************************************************************)
\* let mainContent = this.findMainContent(doc); if (!mainContent) use body
LocateMainContent ==
    /\ pc = "parse"
    /\ mainContent' = IF findMainContent(doc) = NoElement THEN Body
                      ELSE findMainContent(doc)
    /\ pc' = "cleanup"
    /\ UNCHANGED << doc, doc0, blockElements, elementMetrics, scoredElements,
                    idx, contentElements, lastScore, provider, content,
                    content2, excerpt >>

\* this.cleanup(mainContent); return { content: mainContent.outerHTML }
CleanupMainContent ==
    /\ pc = "cleanup"
    /\ doc' = cleanup(doc, mainContent)
    /\ content' = << outerHTML(doc', mainContent) >>
    /\ pc' = "done"
    /\ UNCHANGED << doc0, blockElements, elementMetrics, scoredElements, idx,
                    contentElements, lastScore, mainContent, provider,
                    content2, excerpt >>

\* the Sanitizer run a second time, on the already sanitized fragment
CleanupAgain ==
    /\ pc = "done"
    /\ content2' = [ i \in DOMAIN content |->
                       cleanup(content[i], RootOf(content[i])) ]
    /\ pc' = "again"
    /\ UNCHANGED << doc, doc0, blockElements, elementMetrics, scoredElements,
                    idx, contentElements, lastScore, mainContent, provider,
                    content, excerpt >>

NextSelector ==
    \/ LocateMainContent
    \/ CleanupMainContent
    \/ CleanupAgain

SpecSelector == InitSanitizer /\ [][NextSelector]_vars

(***************************************************************************)
(* Properties                                                              *)
(***************************************************************************)
\* the score findContentElements gave an element
ScoreOf(n) ==
    scoredElements[CHOOSE i \in DOMAIN scoredElements :
                       scoredElements[i].element = n].score

Overlap(a, b) == Contains(doc, a, b) \/ Contains(doc, b, a)

Returned == pc \in { "extract", "done", "again" }

\* C1: the selection never holds two distinct elements of which one contains
\* the other, after every step of the greedy loop and in the returned list
C1_NonOverlap ==
    \A i, j \in DOMAIN contentElements :
        i # j => /\ contentElements[i] # contentElements[j]
                 /\ ~Overlap(contentElements[i], contentElements[j])

\* C1 witness: two elements are selected, and a visited candidate whose score
\* passed the acceptance test was left out because it overlaps a selected one
C1_Witness ==
    /\ pc = "loop"
    /\ Len(contentElements) >= 2
    /\ \E k \in 1 .. idx - 1 :
           LET c == scoredElements[k]
           IN  /\ c.element \notin Range(contentElements)
               /\ AboveMinimum(c.score)
               /\ AboveDecay(c.score, lastScore)
               /\ \E i \in DOMAIN contentElements :
                      Overlap(c.element, contentElements[i])

\* C2 as claimed: of any two accepted candidates, the one accepted later
\* scores at least 0.7 times the one accepted earlier
C2_DecayAnyLater ==
    pc = "loop" =>
        \A i, j \in DOMAIN contentElements :
            i < j =>
                ScoreOf(contentElements[j]) * SCORE_DECAY_FACTOR[2]
                    >= ScoreOf(contentElements[i]) * SCORE_DECAY_FACTOR[1]

\* C2 as amended: each accepted candidate scores at least 0.7 times the
\* candidate accepted immediately before it
C2_DecayNext ==
    pc = "loop" =>
        \A j \in DOMAIN contentElements :
            j > 1 =>
                ScoreOf(contentElements[j]) * SCORE_DECAY_FACTOR[2]
                    >= ScoreOf(contentElements[j - 1]) * SCORE_DECAY_FACTOR[1]

\* C2 witness: a candidate was accepted after one with a higher score
C2_Witness ==
    /\ pc = "loop"
    /\ \E j \in DOMAIN contentElements :
           /\ j > 1
           /\ ScoreOf(contentElements[j]) < ScoreOf(contentElements[j - 1])

\* C3: every attribute of every element of the sanitized output is in the
\* allow-list
C3_AttributeAllowList ==
    pc \in { "done", "again" } =>
        \A i \in DOMAIN content :
            \A n \in DOMAIN content[i] :
                \A a \in content[i][n].attrs : a[1] \in keepAttributes

\* C4: the document parse was called with is never changed
C4_SourceNotMutated == doc = doc0

\* C5: a second Sanitizer run removes nothing from sanitized content
C5_Idempotent == pc = "again" => content2 = content

\* C6: no display:none element is in the Block Enumerator output, and none
\* is in the sanitized output
C6_HiddenExcluded ==
    /\ \A i \in DOMAIN blockElements :
           doc0[blockElements[i]].style.display # "none"
    /\ pc \in { "done", "again" } =>
           \A i \in DOMAIN content :
               \A n \in DOMAIN content[i] : doc0[n].style.display # "none"

\* C7: the returned selection is in document order
C7_DocumentOrder ==
    Returned =>
        \A i, j \in DOMAIN contentElements :
            i < j => Following(doc, contentElements[i], contentElements[j])

\* C7 witness: a returned selection in which an element that comes later in
\* the document was accepted first, having the higher score
C7_Witness ==
    /\ pc = "extract"
    /\ \E i, j \in DOMAIN contentElements :
           /\ i < j
           /\ ScoreOf(contentElements[j]) > ScoreOf(contentElements[i])

\* the selectors of the list that match some element of the document
MatchingSelectors(t) ==
    { i \in DOMAIN MainContentSelectors :
        \E n \in DOMAIN t : MatchesSelector(t[n], MainContentSelectors[i]) }

\* C8: when some selector matches, the located element is a match of the
\* first selector of the list that matches anything
C8_SelectorPriority ==
    (pc # "parse" /\ MatchingSelectors(doc0) # {}) =>
        LET best == CHOOSE i \in MatchingSelectors(doc0) :
                        \A k \in MatchingSelectors(doc0) : i <= k
        IN  MatchesSelector(doc0[mainContent], MainContentSelectors[best])

\* C9: with no content candidate the whole body is the content region
C9_BodyFallback ==
    (pc \in { "done", "again" } /\ blockElements = << >>) =>
        /\ Len(content) = 1
        /\ RootOf(content[1]) = Body

\* a block whose text matches a paywall phrase and which contains an
\* authentication-styled button or link
IsPaywallBlock(t, n) ==
    /\ t[n].tag \in BLOCK_ELEMENTS
    /\ TestText(PAYWALL_INDICATORS, textContent(t, n))
    /\ \E a \in getElementsByTagName(t, n, "A")
                  \cup getElementsByTagName(t, n, "BUTTON") :
           \/ TestText(AUTH_BUTTONS, textContent(t, a))
           \/ Test(AUTH_BUTTONS, ClassName(t[a]))

\* C10: no paywall block inside a selected region is left in the output
C10_PaywallRemoved ==
    pc \in { "done", "again" } =>
        \A i \in DOMAIN content :
            \A n \in DOMAIN content[i] :
                n # RootOf(content[i]) => ~IsPaywallBlock(doc0, n)

\* the text the claimed excerpt is cut from: that of the first paragraph of
\* the cleaned content when it has one, else all the text of the content
ExcerptSource ==
    LET firstP == FirstParagraph(content, 1)
        pText == IF firstP = << >> THEN << >>
                 ELSE textContent(content[firstP[1]], firstP[2])
    IN  IF SumLength(pText) > 0 THEN Trim(pText)
        ELSE Trim(JoinedText(content, 1))

\* the cut of C11: at most 160 characters, and 157 characters and an
\* ellipsis when the source is longer than 160
C11_Cut ==
    (pc \in { "done", "again" } /\ excerpt.defined) =>
        /\ excerpt.of = ExcerptSource
        /\ ExcerptLength(excerpt) <= 160
        /\ IF SumLength(ExcerptSource) > 160
           THEN excerpt.kept = 157 /\ excerpt.ellipsis
           ELSE excerpt.kept = SumLength(ExcerptSource) /\ ~excerpt.ellipsis

\* C11: the excerpt is the text of the first paragraph of the cleaned
\* content, else all its text, cut to 157 characters and an ellipsis when
\* longer than 160, and it is undefined whenever no text remains
C11_Excerpt ==
    /\ C11_Cut
    /\ (pc \in { "done", "again" }
          /\ SumLength(Trim(JoinedText(content, 1))) = 0)
           => ~excerpt.defined

\* the positions in scoredElements the loop has visited, those of them whose
\* candidate was accepted, and the last one accepted before position k
Visited == 1 .. idx - 1

AcceptedAt ==
    { k \in Visited : scoredElements[k].element \in Range(contentElements) }

AcceptedBefore(k) == { a \in AcceptedAt : a < k }

LastAcceptedBefore(k) ==
    CHOOSE a \in AcceptedBefore(k) : \A b \in AcceptedBefore(k) : b <= a

\* score > 0.5 and score > 0.7 times the score of the candidate accepted
\* most recently before position k
PassesBoth(k) ==
    /\ scoredElements[k].score * 2 > ScoreDen
    /\ scoredElements[k].score * 10
           > 7 * scoredElements[LastAcceptedBefore(k)].score

OverlapsAccepted(k) ==
    \E a \in AcceptedBefore(k) :
        Overlap(scoredElements[k].element, scoredElements[a].element)

HiddenIn(t, n) == isHidden(t[n], getComputedStyle(t[n], TRUE))

\* the element has a hidden ancestor below the root of the walk
HasHiddenAncestor(t, n) ==
    \E a \in DOMAIN t :
        a # n /\ a # Body /\ Contains(t, a, n) /\ HiddenIn(t, a)

\* C13: the Block Enumerator output is in document pre-order, holds only
\* block-tag elements, holds no element that is hidden or has a hidden
\* ancestor below the root, and holds every other block-tag element, those
\* below a skipped non-block element included
C13_BlockEnumerator ==
    pc # "parse" =>
        /\ \A i, j \in DOMAIN blockElements :
               i < j => Following(doc0, blockElements[i], blockElements[j])
        /\ \A i \in DOMAIN blockElements :
               /\ doc0[blockElements[i]].tag \in BLOCK_ELEMENTS
               /\ ~HiddenIn(doc0, blockElements[i])
               /\ ~HasHiddenAncestor(doc0, blockElements[i])
        /\ \A n \in DOMAIN doc0 \ { Body } :
               ( /\ doc0[n].tag \in BLOCK_ELEMENTS
                 /\ ~HiddenIn(doc0, n)
                 /\ ~HasHiddenAncestor(doc0, n) )
                   => n \in Range(blockElements)

====
